---- MODULE Spec2Model ----
(***************************************************************************)
(* The state-update engine of src/src/lib.rs: the Model, the Msg arms of   *)
(* update, the two fetch commands, the process-wide MAP_ENTRIES and the    *)
(* host entry points update_bbox / marker_clicked.                         *)
(*                                                                         *)
(* Representation:                                                         *)
(*   Option<T>   None is <<>>, Some(x) is <<x>>                            *)
(*   String      title / description / lat / lon strings are sequences of  *)
(*               Unicode scalar values (String::len counts UTF-8 bytes);   *)
(*               ids, names and other opaque strings are TLA+ strings      *)
(*   f64         an integer number of thousandths                          *)
(*   Vec<T>      a sequence                                                *)
(***************************************************************************)
EXTENDS Integers, Sequences, FiniteSets, TLC

\* ---------------------------------------------------------------- bounds
\* place searches issued in one run
MaxSearches == 2
\* update_bbox calls of the host in one run
MaxViewports == 2
\* entries in one entries-search response, visible and invisible together
MaxEntries == 2
\* number of records in a place-search response
MaxRecords == 2

VARIABLES
    model,        \* the Model owned by the seed App
    MAP_ENTRIES,  \* the lazy_static RwLock<Vec<MapEntry>>
    reqs,         \* every command issued with perform_cmd, in issue order
    timers,       \* closures registered with seed::set_timeout, oldest first
    mapCenter,    \* argument of the host's last setMapCenter call
    overlay,      \* what get_map_entries returned at the host's last updateMap call
    panicked,     \* update has panicked (an unwrap on an Err)
    last          \* the entry point / message handled by the last step

vars == <<model, MAP_ENTRIES, reqs, timers, mapCenter, overlay, panicked, last>>

None == <<>>
Some(x) == <<x>>

SeqsUpTo(S, n) == UNION {[1..k -> S] : k \in 0..n}

\* ------------------------------------------------------------ strings
Utf8Len(c) == IF c < 128 THEN 1 ELSE IF c < 2048 THEN 2 ELSE IF c < 65536 THEN 3 ELSE 4

RECURSIVE len(_)
\* String::len: the number of UTF-8 bytes
len(s) == IF s = <<>> THEN 0 ELSE Utf8Len(Head(s)) + len(Tail(s))

Digit(c) == c \in 48..57

RECURSIVE DigitsValue(_, _)
DigitsValue(s, acc) ==
    IF s = <<>> THEN acc ELSE DigitsValue(Tail(s), 10 * acc + (Head(s) - 48))

RECURSIVE Pow10(_)
Pow10(n) == IF n = 0 THEN 1 ELSE 10 * Pow10(n - 1)

\* str::parse::<f64> on plain decimal notation [+-]digits[.digits]: Ok carries the
\* value in thousandths (digits past the third are cut: the resolution of the
\* model's f64), every other text is Err. Exponents, "inf" and "NaN", which
\* parse accepts too, are not among the texts the model feeds it.
ParseF64(s) ==
    LET signed == s # <<>> /\ Head(s) \in {43, 45}
        body   == IF signed THEN Tail(s) ELSE s
        dots   == {i \in DOMAIN body : body[i] = 46}
        dot    == IF dots = {} THEN Len(body) + 1 ELSE CHOOSE i \in dots : TRUE
        ip     == SubSeq(body, 1, dot - 1)
        fp     == SubSeq(body, dot + 1, Len(body))
        wellformed ==
            /\ Cardinality(dots) <= 1
            /\ \A i \in DOMAIN ip : Digit(ip[i])
            /\ \A i \in DOMAIN fp : Digit(fp[i])
            /\ Len(ip) + Len(fp) > 0
        fp3    == IF Len(fp) > 3 THEN SubSeq(fp, 1, 3) ELSE fp
        mag    == DigitsValue(ip, 0) * 1000 + DigitsValue(fp3, 0) * Pow10(3 - Len(fp3))
    IN  IF wellformed
        THEN [ok |-> TRUE, val |-> IF signed /\ Head(s) = 45 THEN 0 - mag ELSE mag]
        ELSE [ok |-> FALSE]

\* "52.52", "13.405", "abc"
Txt52_52 == <<53, 50, 46, 53, 50>>
Txt13_405 == <<49, 51, 46, 52, 48, 53>>
TxtAbc == <<97, 98, 99>>

\* the lat / lon texts of the place-search responses
CoordinateTexts == {Txt52_52, Txt13_405, TxtAbc}

\* ParseF64 on those texts, tabulated once
ParsedTexts == [t \in CoordinateTexts |-> ParseF64(t)]

\* lat.parse() / lng.parse()
parse(t) == ParsedTexts[t]

\* ------------------------------------------------------------------ types
\* struct LatLng / struct BBox
LatLng(lat, lng) == [lat |-> lat, lng |-> lng]
BBox(north_east, south_west) == [north_east |-> north_east, south_west |-> south_west]

\* mutant of to_vec: the north-east corner first
to_vec_ne_first(bbox) ==
    << bbox.north_east.lat, bbox.north_east.lng,
       bbox.south_west.lat, bbox.south_west.lng >>

\* BBox::to_vec
to_vec(bbox) ==
    << bbox.south_west.lat, bbox.south_west.lng,
       bbox.north_east.lat, bbox.north_east.lng >>

\* struct MapEntry
MapEntry(id, name, lat, lng) == [id |-> id, name |-> name, lat |-> lat, lng |-> lng]

\* struct City
City(name, country, lat, lng) == [name |-> name, country |-> country, lat |-> lat, lng |-> lng]

\* struct EntryFormModel
EntryFormModel(title, description) == [title |-> title, description |-> description]

\* EntryFormInvalidity::TitleLength(Min, Max, Actual)
TitleLength(min, max, actual) ==
    [invalidity |-> "TitleLength", min |-> min, max |-> max, actual |-> actual]

\* impl Default for Model
ModelDefault ==
    [ cities                |-> None,
      bbox                  |-> None,
      selected              |-> None,
      entries               |-> <<>>,
      show_new_entry_form   |-> FALSE,
      new_entry_form        |-> EntryFormModel(<<>>, <<>>),
      new_entry_form_errors |-> <<>> ]

\* ------------------------------------------------------------- validation
\* the literal of `self.title.len() < 3`
ShortTitle == 3
\* the literals of TitleLength(Min(3), Max(25), ..)
MinTitle == 3
MaxTitle == 25

\* semval's ValidationContext: the invalidities collected so far
invalidate_if(context, condition, invalidity) ==
    IF condition THEN Append(context, invalidity) ELSE context

\* ValidationContext -> ValidationResult: Ok(()) when nothing was collected
into(context) ==
    IF context = <<>> THEN [ok |-> TRUE] ELSE [ok |-> FALSE, err |-> context]

\* mutant of validate: a title of exactly ShortTitle bytes is rejected too
validate_inclusive(form) ==
    into(invalidate_if(<<>>,
                       len(form.title) <= ShortTitle,
                       TitleLength(MinTitle, MaxTitle, len(form.title))))

\* impl Validate for EntryFormModel
validate(form) ==
    into(invalidate_if(<<>>,
                       len(form.title) < ShortTitle,
                       TitleLength(MinTitle, MaxTitle, len(form.title))))

\* ------------------------------------------------------------ place search
\* struct NominatimAddress (the fields update reads, and village)
NominatimAddress(city, country, village) ==
    [city |-> city, country |-> country, village |-> village]

\* struct NominatimEntry (boundingbox and display_name are never read)
NominatimEntry(address, class, type, lat, lon) ==
    [address |-> address, class |-> class, type |-> type, lat |-> lat, lon |-> lon]

\* NominatimEntry::is_city
is_city(x) ==
    \/ (x.class = "place" /\ (x.type = "city" \/ x.type = "village"))
    \/ (x.class = "boundary" /\ x.type = "administrative")

\* the closure of .map(): (address.city, address.country, lat, lon)
city_tuple(c) ==
    [name |-> c.address.city, country |-> c.address.country, lat |-> c.lat, lng |-> c.lon]

\* the three nested `if let Some(..)` of the filter_map closure
all_some(t) == t.lat # None /\ t.lng # None /\ t.name # None

\* lat.parse().unwrap() or lng.parse().unwrap() panics
unwrap_panics(t) ==
    all_some(t) /\ (~parse(t.lat[1]).ok \/ ~parse(t.lng[1]).ok)

\* the filter_map closure, where it returns
to_city(t) ==
    IF all_some(t)
    THEN Some(City(t.name[1], t.country, parse(t.lat[1]).val, parse(t.lng[1]).val))
    ELSE None

RECURSIVE filter_map_collect(_)
\* .filter_map(..).collect::<Vec<_>>()
filter_map_collect(ts) ==
    IF ts = <<>> THEN <<>> ELSE to_city(Head(ts)) \o filter_map_collect(Tail(ts))

\* res.iter().filter(|x| x.is_city()).map(..)
city_tuples(res) ==
    LET kept == SelectSeq(res, is_city)
    IN  [i \in DOMAIN kept |-> city_tuple(kept[i])]

\* the iterator chain of Msg::CitySearchResult(Ok(res)): it panics at the first
\* tuple whose coordinate does not parse, else yields the cities
collect_cities(res) ==
    LET ts == city_tuples(res)
    IN  IF \E i \in DOMAIN ts : unwrap_panics(ts[i])
        THEN [panic |-> TRUE]
        ELSE [panic |-> FALSE, cities |-> filter_map_collect(ts)]

\* mutant of set_cities: the list is stored even when it is empty
set_cities_always(m, cities) == [m EXCEPT !.cities = Some(cities)]

\* mutant of set_cities: an empty list clears the candidates
set_cities_or_clear(m, cities) ==
    IF cities # <<>> THEN [m EXCEPT !.cities = Some(cities)] ELSE [m EXCEPT !.cities = None]

\* if !cities.is_empty() { model.cities = Some(cities); }
set_cities(m, cities) ==
    IF cities # <<>> THEN [m EXCEPT !.cities = Some(cities)] ELSE m

\* ---------------------------------------------------------- entries search
\* struct Entry
Entry(id, title, description, lat, lng) ==
    [id |-> id, title |-> title, description |-> description, lat |-> lat, lng |-> lng]

\* struct EntrySearchResponse
EntrySearchResponse(visible, invisible) == [visible |-> visible, invisible |-> invisible]

\* mutant of to_map_entry: the marker is named by the description
to_map_entry_described(e) == MapEntry(e.id, e.description, e.lat, e.lng)

\* the .map(|e| MapEntry { .. }) closure
to_map_entry(e) == MapEntry(e.id, e.title, e.lat, e.lng)

\* res.visible.iter().cloned().map(..).collect::<Vec<_>>()
map_entries(visible) == [i \in DOMAIN visible |-> to_map_entry(visible[i])]

\* mutant of set_entries: the invisible entries are kept too
set_entries_with_invisible(m, res) == [m EXCEPT !.entries = res.visible \o res.invisible]

\* mutant of set_entries: a selection whose entry is gone is cleared
set_entries_dropping_selection(m, res) ==
    [m EXCEPT !.entries = res.visible,
              !.selected = IF m.selected # None
                              /\ \A i \in DOMAIN res.visible :
                                    res.visible[i].id # m.selected[1].id
                           THEN None ELSE m.selected]

\* model.entries = res.visible
set_entries(m, res) == [m EXCEPT !.entries = res.visible]

\* mutant of find: the last entry with the id
find_last(entries, id) ==
    LET hits == {i \in DOMAIN entries : entries[i].id = id}
    IN  IF hits = {} THEN None
        ELSE Some(entries[CHOOSE i \in hits : \A j \in hits : i >= j])

\* model.entries.iter().find(|e| e.id == id).cloned()
find(entries, id) ==
    LET hits == {i \in DOMAIN entries : entries[i].id = id}
    IN  IF hits = {} THEN None
        ELSE Some(entries[CHOOSE i \in hits : \A j \in hits : i <= j])

\* ---------------------------------------------------------------- commands
\* fetch_nominatim: the request it builds (the query goes into the URL as it is)
fetch_nominatim(query) == [kind |-> "nominatim", arg |-> query, status |-> "pending"]

\* fetch_entries: the request it builds, bbox = the ordinates of to_vec joined by ","
fetch_entries(bbox) == [kind |-> "entries", arg |-> to_vec(bbox), status |-> "pending"]

\* orders.perform_cmd
perform_cmd(cmds, cmd) == Append(cmds, cmd)

Pending(kind) == {r \in DOMAIN reqs : reqs[r].kind = kind /\ reqs[r].status = "pending"}

\* ------------------------------------------------------------------ inputs

RecBerlin ==
    NominatimEntry(NominatimAddress(Some("Berlin"), "Germany", None),
                   "place", "city", Some(Txt52_52), Some(Txt13_405))
\* a village: its name is in address.village, address.city is absent
RecVillage ==
    NominatimEntry(NominatimAddress(None, "Germany", Some("Dorf")),
                   "place", "village", Some(Txt52_52), Some(Txt13_405))
RecNoLat ==
    NominatimEntry(NominatimAddress(Some("Potsdam"), "Germany", None),
                   "boundary", "administrative", None, Some(Txt13_405))
RecNoLon ==
    NominatimEntry(NominatimAddress(Some("Potsdam"), "Germany", None),
                   "place", "city", Some(Txt52_52), None)
\* a city whose lat is present and is no number
RecBadLat ==
    NominatimEntry(NominatimAddress(Some("Kiel"), "Germany", None),
                   "place", "city", Some(TxtAbc), Some(Txt13_405))
\* complete, and not a city by class/type
RecTown ==
    NominatimEntry(NominatimAddress(Some("Teltow"), "Germany", None),
                   "place", "town", Some(Txt52_52), Some(Txt13_405))

Records == {RecBerlin, RecVillage, RecNoLat, RecNoLon, RecBadLat, RecTown}

\* the payloads of a decodable place-search response
NominatimResponses == SeqsUpTo(Records, MaxRecords)

Queries == {"Berlin"}

\* two entries share the id "a"
EntryCafe == Entry("a", "Cafe", "coffee", 52520, 13405)
EntryShop == Entry("a", "Shop", "books", 52521, 13406)
EntryFarm == Entry("b", "Farm", "eggs", 46948, 7447)

Entries == {EntryCafe, EntryShop, EntryFarm}

\* the payloads of a decodable entries-search response
EntrySearchResponses ==
    { res \in { EntrySearchResponse(v, i) :
                  v \in SeqsUpTo(Entries, MaxEntries), i \in SeqsUpTo(Entries, MaxEntries) } :
        Len(res.visible) + Len(res.invisible) <= MaxEntries }

\* the ids the host passes to marker_clicked
MarkerIds == {"a", "zz"}

\* the bounds the host passes to update_bbox: <<ne_lat, ne_lng, sw_lat, sw_lng>>
HostBounds == { <<53000, 14000, 52000, 13000>>, <<48000, 8000, 46000, 7000>> }

\* the boxes update_bbox builds from them
HostBoxes == { BBox(LatLng(b[1], b[2]), LatLng(b[3], b[4])) : b \in HostBounds }

\* the ordinates a City of the list can carry
Ordinates == {52520, 13405}

\* the positions a command can take in reqs
ReqIds == 1..(MaxSearches + MaxViewports)

\* the failure texts of fetch_json_data
FailReasons == {"FetchError"}

\* "", "H", "Hi", "Hey", two e-acute (2 characters, 4 bytes), MaxTitle + 1 times "a"
TitleInputs ==
    { <<>>, <<72>>, <<72, 105>>, <<72, 101, 121>>, <<233, 233>>,
      [i \in 1..(MaxTitle + 1) |-> 97] }

\* "", "x"
DescriptionInputs == { <<>>, <<120>> }

\* ---------------------------------------------------------------- actions
Init ==
    /\ model = ModelDefault
    /\ MAP_ENTRIES = <<>>
    /\ reqs = <<>>
    /\ timers = <<>>
    /\ mapCenter = None
    /\ overlay = None
    /\ panicked = FALSE
    /\ last = [type |-> "render"]

\* a message reaches update: the App is alive
Alive == ~panicked

\* the commands of one kind issued so far
Issued(kind) == {r \in DOMAIN reqs : reqs[r].kind = kind}

\* Msg::CitySearch(txt), from the search input of view
CitySearch(txt) ==
    /\ Alive
    /\ Cardinality(Issued("nominatim")) < MaxSearches
    /\ reqs' = perform_cmd(reqs, fetch_nominatim(txt))
    /\ last' = [type |-> "CitySearch", txt |-> txt]
    /\ UNCHANGED <<model, MAP_ENTRIES, timers, mapCenter, overlay, panicked>>

\* Msg::CitySearchResult(Ok(res)), the place search r resolving with res
CitySearchResultOk(r, res) ==
    /\ Alive
    /\ r \in Pending("nominatim")
    /\ reqs' = [reqs EXCEPT ![r].status = "ok"]
    /\ LET got == collect_cities(res)
       IN  IF got.panic
           THEN panicked' = TRUE /\ model' = model
           ELSE panicked' = panicked /\ model' = set_cities(model, got.cities)
    /\ last' = [type |-> "CitySearchResult", ok |-> TRUE, res |-> res, req |-> r]
    /\ UNCHANGED <<MAP_ENTRIES, timers, mapCenter, overlay>>

\* mutant of CitySearchResultErr: the failed place search is issued again
CitySearchResultErr_Retry(r, fail_reason) ==
    /\ Alive
    /\ r \in Pending("nominatim")
    /\ reqs' = perform_cmd([reqs EXCEPT ![r].status = "err"], fetch_nominatim(reqs[r].arg))
    /\ last' = [type |-> "CitySearchResult", ok |-> FALSE, reason |-> fail_reason, req |-> r]
    /\ UNCHANGED <<model, MAP_ENTRIES, timers, mapCenter, overlay, panicked>>

\* Msg::CitySearchResult(Err(fail_reason))
CitySearchResultErr(r, fail_reason) ==
    /\ Alive
    /\ r \in Pending("nominatim")
    /\ reqs' = [reqs EXCEPT ![r].status = "err"]
    /\ last' = [type |-> "CitySearchResult", ok |-> FALSE, reason |-> fail_reason, req |-> r]
    /\ UNCHANGED <<model, MAP_ENTRIES, timers, mapCenter, overlay, panicked>>

\* mutant of EntrySearchResultOk: the response of a search is dropped when a
\* newer search has been issued
EntrySearchResultOk_DropSuperseded(r, res) ==
    /\ Alive
    /\ r \in Pending("entries")
    /\ reqs' = [reqs EXCEPT ![r].status = "ok"]
    /\ IF \E q \in DOMAIN reqs : q > r
       THEN UNCHANGED <<model, MAP_ENTRIES, overlay>>
       ELSE /\ model' = set_entries(model, res)
            /\ MAP_ENTRIES' = map_entries(res.visible)
            /\ overlay' = Some(MAP_ENTRIES')
    /\ last' = [type |-> "EntrySearchResult", ok |-> TRUE, res |-> res, req |-> r]
    /\ UNCHANGED <<timers, mapCenter, panicked>>

\* Msg::EntrySearchResult(Ok(res)), the entries search r resolving with res
EntrySearchResultOk(r, res) ==
    /\ Alive
    /\ r \in Pending("entries")
    /\ reqs' = [reqs EXCEPT ![r].status = "ok"]
    /\ model' = set_entries(model, res)
    /\ MAP_ENTRIES' = map_entries(res.visible)
    /\ overlay' = Some(MAP_ENTRIES')
    /\ last' = [type |-> "EntrySearchResult", ok |-> TRUE, res |-> res, req |-> r]
    /\ UNCHANGED <<timers, mapCenter, panicked>>

\* Msg::EntrySearchResult(Err(fail_reason))
EntrySearchResultErr(r, fail_reason) ==
    /\ Alive
    /\ r \in Pending("entries")
    /\ reqs' = [reqs EXCEPT ![r].status = "err"]
    /\ last' = [type |-> "EntrySearchResult", ok |-> FALSE, reason |-> fail_reason, req |-> r]
    /\ UNCHANGED <<model, MAP_ENTRIES, timers, mapCenter, overlay, panicked>>

\* mutant of SetMapCenter: the model's viewport follows the new centre
SetMapCenter_MovesBBox(lat, lng) ==
    /\ Alive
    /\ model.cities # None
    /\ \E i \in DOMAIN model.cities[1] :
          model.cities[1][i].lat = lat /\ model.cities[1][i].lng = lng
    /\ mapCenter' = Some(<<lat, lng>>)
    /\ model' = [model EXCEPT !.bbox = Some(BBox(LatLng(lat, lng), LatLng(lat, lng)))]
    /\ last' = [type |-> "SetMapCenter", lat |-> lat, lng |-> lng]
    /\ UNCHANGED <<MAP_ENTRIES, reqs, timers, overlay, panicked>>

\* Msg::SetMapCenter(lat, lng), from a click on a city of the list view renders
SetMapCenter(lat, lng) ==
    /\ Alive
    /\ model.cities # None
    /\ \E i \in DOMAIN model.cities[1] :
          model.cities[1][i].lat = lat /\ model.cities[1][i].lng = lng
    /\ mapCenter' = Some(<<lat, lng>>)
    /\ last' = [type |-> "SetMapCenter", lat |-> lat, lng |-> lng]
    /\ UNCHANGED <<model, MAP_ENTRIES, reqs, timers, overlay, panicked>>

\* mutant of update_bbox: a call cancels the timers still waiting (debounce)
update_bbox_debounced(north_east_lat, north_east_lng, south_west_lat, south_west_lng) ==
    /\ Len(timers) + Cardinality(Issued("entries")) < MaxViewports
    /\ timers' = <<BBox(LatLng(north_east_lat, north_east_lng),
                        LatLng(south_west_lat, south_west_lng))>>
    /\ last' = [type |-> "update_bbox",
                 args |-> <<north_east_lat, north_east_lng, south_west_lat, south_west_lng>>]
    /\ UNCHANGED <<model, MAP_ENTRIES, reqs, mapCenter, overlay, panicked>>

\* pub fn update_bbox: builds the BBox and registers the timer closure
update_bbox(north_east_lat, north_east_lng, south_west_lat, south_west_lng) ==
    /\ Len(timers) + Cardinality(Issued("entries")) < MaxViewports
    /\ timers' = Append(timers, BBox(LatLng(north_east_lat, north_east_lng),
                                     LatLng(south_west_lat, south_west_lng)))
    /\ last' = [type |-> "update_bbox",
                 args |-> <<north_east_lat, north_east_lng, south_west_lat, south_west_lng>>]
    /\ UNCHANGED <<model, MAP_ENTRIES, reqs, mapCenter, overlay, panicked>>

\* mutant of UpdateBBox: the search is issued, the viewport is not stored
UpdateBBox_SearchOnly(bbox) ==
    /\ Alive
    /\ timers # <<>> /\ bbox = Head(timers)
    /\ timers' = Tail(timers)
    /\ reqs' = perform_cmd(reqs, fetch_entries(bbox))
    /\ last' = [type |-> "UpdateBBox", bbox |-> bbox]
    /\ UNCHANGED <<model, MAP_ENTRIES, mapCenter, overlay, panicked>>

\* Msg::UpdateBBox(bbox), sent by the oldest timer closure when it runs
UpdateBBox(bbox) ==
    /\ Alive
    /\ timers # <<>> /\ bbox = Head(timers)
    /\ timers' = Tail(timers)
    /\ reqs' = perform_cmd(reqs, fetch_entries(bbox))
    /\ model' = [model EXCEPT !.bbox = Some(bbox)]
    /\ last' = [type |-> "UpdateBBox", bbox |-> bbox]
    /\ UNCHANGED <<MAP_ENTRIES, mapCenter, overlay, panicked>>

\* Msg::EntrySelected(id), sent by pub fn marker_clicked
EntrySelected(id) ==
    /\ Alive
    /\ model' = [model EXCEPT !.selected = find(model.entries, id)]
    /\ last' = [type |-> "EntrySelected", id |-> id]
    /\ UNCHANGED <<MAP_ENTRIES, reqs, timers, mapCenter, overlay, panicked>>

\* Msg::ShowNewEntryForm, from the button view renders while the form is hidden
ShowNewEntryForm ==
    /\ Alive
    /\ ~model.show_new_entry_form
    /\ model' = [model EXCEPT !.show_new_entry_form = TRUE]
    /\ last' = [type |-> "ShowNewEntryForm"]
    /\ UNCHANGED <<MAP_ENTRIES, reqs, timers, mapCenter, overlay, panicked>>

\* mutant of EntryFormTitle: the form is validated on every change of the title
EntryFormTitle_Validates(txt) ==
    /\ Alive
    /\ model.show_new_entry_form
    /\ LET form == [model.new_entry_form EXCEPT !.title = txt]
           result == validate(form)
       IN  model' = [model EXCEPT !.new_entry_form = form,
                                  !.new_entry_form_errors =
                                      IF result.ok THEN <<>> ELSE result.err]
    /\ last' = [type |-> "EntryForm", field |-> "Title", txt |-> txt]
    /\ UNCHANGED <<MAP_ENTRIES, reqs, timers, mapCenter, overlay, panicked>>

\* Msg::EntryForm(EntryFormMsg::Title(txt)), from the title input of the form
EntryFormTitle(txt) ==
    /\ Alive
    /\ model.show_new_entry_form
    /\ model' = [model EXCEPT !.new_entry_form.title = txt]
    /\ last' = [type |-> "EntryForm", field |-> "Title", txt |-> txt]
    /\ UNCHANGED <<MAP_ENTRIES, reqs, timers, mapCenter, overlay, panicked>>

\* Msg::EntryForm(EntryFormMsg::Description(txt)), from the textarea of the form
EntryFormDescription(txt) ==
    /\ Alive
    /\ model.show_new_entry_form
    /\ model' = [model EXCEPT !.new_entry_form.description = txt]
    /\ last' = [type |-> "EntryForm", field |-> "Description", txt |-> txt]
    /\ UNCHANGED <<MAP_ENTRIES, reqs, timers, mapCenter, overlay, panicked>>

\* mutant of create_new_entry: the violations are added to the earlier ones
create_new_entry_append(m) ==
    LET result == validate(m.new_entry_form)
    IN  IF result.ok THEN m
        ELSE [m EXCEPT !.new_entry_form_errors = m.new_entry_form_errors \o result.err]

\* the arms of `match model.new_entry_form.validate()`
create_new_entry(m) ==
    LET result == validate(m.new_entry_form)
    IN  IF result.ok THEN m ELSE [m EXCEPT !.new_entry_form_errors = result.err]

\* Msg::CreateNewEntry, from the create button of the form
CreateNewEntry ==
    /\ Alive
    /\ model.show_new_entry_form
    /\ model' = create_new_entry(model)
    /\ last' = [type |-> "CreateNewEntry"]
    /\ UNCHANGED <<MAP_ENTRIES, reqs, timers, mapCenter, overlay, panicked>>

\* the place search: the search input, its lookups, the list of cities
NextPlace ==
    \/ \E txt \in Queries : CitySearch(txt)
    \/ \E r \in ReqIds : \E res \in NominatimResponses : CitySearchResultOk(r, res)
    \/ \E r \in ReqIds : \E why \in FailReasons : CitySearchResultErr(r, why)
    \/ \E lat \in Ordinates : \E lng \in Ordinates : SetMapCenter(lat, lng)

\* the map: the host's viewport and marker calls, the entries lookups
NextMap ==
    \/ \E b \in HostBounds : update_bbox(b[1], b[2], b[3], b[4])
    \/ \E b \in HostBoxes : UpdateBBox(b)
    \/ \E r \in ReqIds : \E res \in EntrySearchResponses : EntrySearchResultOk(r, res)
    \/ \E r \in ReqIds : \E why \in FailReasons : EntrySearchResultErr(r, why)
    \/ \E id \in MarkerIds : EntrySelected(id)

\* the new-entry form
NextForm ==
    \/ ShowNewEntryForm
    \/ \E txt \in TitleInputs : EntryFormTitle(txt)
    \/ \E txt \in DescriptionInputs : EntryFormDescription(txt)
    \/ CreateNewEntry

\* a place search answered with one city
LookupCityResponses == { <<RecBerlin>> }

\* an entries search answered with one visible and one invisible entry
LookupEntryResponses == { EntrySearchResponse(<<EntryCafe>>, <<EntryFarm>>) }

\* both lookups side by side: place searches and entries searches in flight
\* together, each resolving with a response or a failure
NextLookup ==
    \/ \E txt \in Queries : CitySearch(txt)
    \/ \E r \in ReqIds : \E res \in LookupCityResponses : CitySearchResultOk(r, res)
    \/ \E r \in ReqIds : \E why \in FailReasons : CitySearchResultErr(r, why)
    \/ \E b \in HostBounds : update_bbox(b[1], b[2], b[3], b[4])
    \/ \E b \in HostBoxes : UpdateBBox(b)
    \/ \E r \in ReqIds : \E res \in LookupEntryResponses : EntrySearchResultOk(r, res)
    \/ \E r \in ReqIds : \E why \in FailReasons : EntrySearchResultErr(r, why)
    \/ \E id \in MarkerIds : EntrySelected(id)

Next == NextPlace \/ NextMap \/ NextForm

SpecPlace == Init /\ [][NextPlace]_vars
SpecMap == Init /\ [][NextMap]_vars
SpecForm == Init /\ [][NextForm]_vars
SpecLookup == Init /\ [][NextLookup]_vars

\* the fetch future of place search r completing: fetch_json_data hands its one
\* result, a response or a failure, to update
CitySearchResult(r) ==
    \/ \E res \in NominatimResponses : CitySearchResultOk(r, res)
    \/ \E why \in FailReasons : CitySearchResultErr(r, why)

\* the place search with a network task that completes every fetch it was given
FairSpecPlace == SpecPlace /\ \A r \in ReqIds : WF_vars(CitySearchResult(r))
Spec == Init /\ [][Next]_vars

\* =================================================================== claims
IsEntryResult(m) == m.type = "EntrySearchResult"
IsCityResult(m) == m.type = "CitySearchResult"

\* the box of the newest entries search issued
NewestBox == reqs[CHOOSE r \in Issued("entries") : \A q \in Issued("entries") : q <= r].arg

\* the ordinates of a box in the order of the search query: swLat, swLng, neLat, neLng
QueryOrdinates(b) ==
    <<b.south_west.lat, b.south_west.lng, b.north_east.lat, b.north_east.lng>>

\* the response just applied belongs to a search that a later-issued search,
\* already answered successfully, has superseded
Superseded(rs, r) == \E q \in DOMAIN rs : q > r /\ rs[q].kind = "entries" /\ rs[q].status = "ok"

\* C1: overlapping entries searches are last-applied-wins. A search stays in
\* flight until its own result message is processed (issuing a newer search
\* neither drops nor cancels it), and a successful response of a superseded
\* search, processed after the successful response of a newer one, still
\* replaces model.entries by its visible list and leaves model.bbox, the box of
\* the newer search, alone.
C1_LastAppliedWins ==
    [][ /\ \A r \in DOMAIN reqs :
              reqs[r].status = "pending" =>
                  /\ r \in DOMAIN reqs'
                  /\ \/ reqs'[r] = reqs[r]
                     \/ (IsEntryResult(last') \/ IsCityResult(last')) /\ last'.req = r
        /\ (IsEntryResult(last') /\ last'.ok /\ Superseded(reqs, last'.req)) =>
              /\ model'.entries = last'.res.visible
              /\ model'.bbox = model.bbox
              /\ QueryOrdinates(model'.bbox[1]) = NewestBox
      ]_vars

\* C1 witness: B1 then B2 were issued, B2's response was applied first, B1's
\* response has just been applied: entries is B1's visible list, bbox is B2.
C1_Witness ==
    /\ IsEntryResult(last) /\ last.ok
    /\ Superseded(reqs, last.req)
    /\ reqs[last.req].arg # NewestBox
    /\ model.bbox # None /\ QueryOrdinates(model.bbox[1]) = NewestBox
    /\ model.entries = last.res.visible
    /\ model.entries # <<>>

InSeq(e, seq) == \E i \in DOMAIN seq : seq[i] = e

\* C2: after EntrySearchResult(Ok(resp)) is processed model.entries equals
\* resp.visible exactly, and no entry that occurs only in resp.invisible is in
\* model.entries.
C2_EntriesAreVisible ==
    (IsEntryResult(last) /\ last.ok) =>
        /\ model.entries = last.res.visible
        /\ \A i \in DOMAIN last.res.invisible :
              ~InSeq(last.res.invisible[i], last.res.visible) =>
                  ~InSeq(last.res.invisible[i], model.entries)

\* C2 witness: a second successful response, with a non-empty visible list and
\* an invisible entry that is not visible, has just been applied.
C2_Witness ==
    /\ IsEntryResult(last) /\ last.ok
    /\ \E r \in DOMAIN reqs : r # last.req /\ reqs[r].status = "ok"
    /\ last.res.visible # <<>>
    /\ \E i \in DOMAIN last.res.invisible :
          ~InSeq(last.res.invisible[i], last.res.visible)
    /\ model.entries = last.res.visible

\* C3: processing UpdateBBox(B) sets model.bbox = Some(B) in that transition and
\* schedules exactly one entries search, for B; no other step changes model.bbox.
C3_BBoxSetWithOneSearch ==
    [][ /\ last'.type = "UpdateBBox" =>
              /\ model'.bbox = Some(last'.bbox)
              /\ Len(reqs') = Len(reqs) + 1
              /\ SubSeq(reqs', 1, Len(reqs)) = reqs
              /\ reqs'[Len(reqs')] =
                    [kind |-> "entries", arg |-> QueryOrdinates(last'.bbox), status |-> "pending"]
        /\ model'.bbox # model.bbox => last'.type = "UpdateBBox"
      ]_vars

\* C3 witness: the search issued for the current box has just failed, and
\* model.bbox is still that box.
C3_Witness ==
    /\ IsEntryResult(last) /\ ~last.ok
    /\ model.bbox # None
    /\ reqs[last.req].arg = QueryOrdinates(model.bbox[1])
    /\ last.req = Len(reqs)

\* the classification of the claim: city, village or administrative boundary
CityLike(x) ==
    <<x.class, x.type>> \in
        {<<"place", "city">>, <<"place", "village">>, <<"boundary", "administrative">>}

\* the record lacks a latitude, a longitude or a place name
Lacks(x) == x.lat = None \/ x.lon = None \/ x.address.city = None

\* the City a complete record with parsable coordinates stands for
CityFor(x) ==
    [name |-> x.address.city[1], country |-> x.address.country,
     lat |-> ParseF64(x.lat[1]).val, lng |-> ParseF64(x.lon[1]).val]

\* a complete city record one of whose coordinates is no number
Malformed(x) ==
    CityLike(x) /\ ~Lacks(x) /\ (~ParseF64(x.lat[1]).ok \/ ~ParseF64(x.lon[1]).ok)

\* the complete city records of a response, in order
Complete(res) == SelectSeq(res, LAMBDA x : CityLike(x) /\ ~Lacks(x))

CitiesFor(recs) == [i \in DOMAIN recs |-> CityFor(recs[i])]

\* C4 as stated: when some record passes the classification filter model.cities
\* becomes exactly the list of those records mapped to City, and is unchanged
\* when none passes (looked at only where update returns).
C4_Original ==
    [][ (IsCityResult(last') /\ last'.ok /\ ~panicked') =>
            IF SelectSeq(last'.res, CityLike) # <<>>
            THEN model'.cities = Some(CitiesFor(Complete(last'.res)))
            ELSE model'.cities = model.cities
      ]_vars

\* C4 amended: let L be the cities built, in order, from the records that pass
\* the classification filter and carry address.city, lat and lon. When L is
\* non-empty and update returns, model.cities = Some(L); when L is empty (also
\* when records passed the filter and none was complete), or when update aborts
\* on a coordinate that is no number, model.cities keeps its prior value.
C4_CitiesReplacedWhenMapped ==
    [][ (IsCityResult(last') /\ last'.ok) =>
            LET recs == Complete(last'.res)
                aborts == \E i \in DOMAIN last'.res : Malformed(last'.res[i])
            IN  /\ panicked' = aborts
                /\ IF ~aborts /\ recs # <<>>
                   THEN model'.cities = Some(CitiesFor(recs))
                   ELSE model'.cities = model.cities
      ]_vars

\* C4 witness: a response whose only record passes the filter and lacks a name
\* has just been processed, and the cities of an earlier search are still there.
C4_Witness ==
    /\ IsCityResult(last) /\ last.ok /\ ~panicked
    /\ SelectSeq(last.res, CityLike) # <<>>
    /\ Complete(last.res) = <<>>
    /\ model.cities # None /\ model.cities[1] # <<>>

\* C5: when a response holds a record that lacks lat, lon or a name, that record
\* yields no City and the other city records of the batch are still mapped:
\* model.cities becomes the list of their cities (it is unchanged when there is
\* no other city record).
C5_IncompleteExcludedRestMapped ==
    [][ (IsCityResult(last') /\ last'.ok
            /\ \E i \in DOMAIN last'.res : CityLike(last'.res[i]) /\ Lacks(last'.res[i])) =>
            LET others == Complete(last'.res)
            IN  IF others = <<>>
                THEN model'.cities = model.cities
                ELSE /\ model'.cities # None
                     /\ Len(model'.cities[1]) = Len(others)
                     /\ \A i \in DOMAIN others :
                           /\ model'.cities[1][i].name = others[i].address.city[1]
                           /\ model'.cities[1][i].country = others[i].address.country
      ]_vars

\* C6: processing CitySearchResult(Ok) never aborts the engine, whatever the
\* records hold.
C6_NeverAborts == (IsCityResult(last) /\ last.ok) => ~panicked

\* C7: EntrySelected(id) sets model.selected to the first entry of model.entries
\* whose id is id, to None when there is none, and leaves model.entries alone.
C7_SelectedIsFirstMatch ==
    [][ last'.type = "EntrySelected" =>
            /\ model'.entries = model.entries
            /\ IF \E i \in DOMAIN model.entries : model.entries[i].id = last'.id
               THEN \E i \in DOMAIN model.entries :
                       /\ model.entries[i].id = last'.id
                       /\ \A j \in 1..(i - 1) : model.entries[j].id # last'.id
                       /\ model'.selected = Some(model.entries[i])
               ELSE model'.selected = None
      ]_vars

\* C7 witness: two different entries carry the selected id and the first of them
\* is the selection.
C7_Witness ==
    /\ last.type = "EntrySelected"
    /\ Len(model.entries) = 2
    /\ model.entries[1].id = last.id /\ model.entries[2].id = last.id
    /\ model.entries[1] # model.entries[2]
    /\ model.selected = Some(model.entries[1])

\* C8: validate depends on the form alone: a title of length (String::len) 0, 1
\* or 2 yields exactly one TitleLength(3, 25, length), a longer title yields Ok;
\* validating the unchanged form again yields what CreateNewEntry stored.
C8_ValidateByTitleLength ==
    LET form == model.new_entry_form
        n == len(form.title)
    IN  /\ n < 3 =>
              validate(form) =
                  [ok |-> FALSE,
                   err |-> <<[invalidity |-> "TitleLength", min |-> 3, max |-> 25, actual |-> n]>>]
        /\ n >= 3 => validate(form) = [ok |-> TRUE]
        /\ (last.type = "CreateNewEntry" /\ n < 3) =>
              validate(form).err = model.new_entry_form_errors

\* C8 witness: the form with the title "Hi" has just been submitted.
C8_Witness ==
    /\ last.type = "CreateNewEntry"
    /\ model.new_entry_form.title = <<72, 105>>
    /\ ~validate(model.new_entry_form).ok
    /\ model.new_entry_form_errors = validate(model.new_entry_form).err

\* C9: CreateNewEntry on a form whose title has length n < 3 sets
\* new_entry_form_errors to exactly [TitleLength(3, 25, n)], whatever it held,
\* and changes neither the draft form nor any other field or variable.
C9_InvalidSubmitSetsErrors ==
    [][ (last'.type = "CreateNewEntry" /\ len(model.new_entry_form.title) < 3) =>
            /\ model' =
                  [model EXCEPT !.new_entry_form_errors =
                      <<[invalidity |-> "TitleLength", min |-> 3, max |-> 25,
                         actual |-> len(model.new_entry_form.title)]>>]
            /\ UNCHANGED <<MAP_ENTRIES, reqs, timers, mapCenter, overlay, panicked>>
      ]_vars

\* C9 witness: the draft {title "Hi", description "x"} has just been submitted:
\* the violations are [TitleLength(3, 25, 2)] and the draft is as it was.
C9_Witness ==
    /\ last.type = "CreateNewEntry"
    /\ model.new_entry_form = [title |-> <<72, 105>>, description |-> <<120>>]
    /\ model.new_entry_form_errors =
          <<[invalidity |-> "TitleLength", min |-> 3, max |-> 25, actual |-> 2]>>

\* C10: right after a CreateNewEntry processed with a valid draft form (here: a
\* title of three characters or more, which validate accepts),
\* model.new_entry_form_errors is empty.
C10_ValidSubmitClearsErrors ==
    (/\ last.type = "CreateNewEntry"
     /\ validate(model.new_entry_form).ok
     /\ Len(model.new_entry_form.title) >= 3) =>
        model.new_entry_form_errors = <<>>


\* C11: processing CitySearchResult(Err(reason)) or EntrySearchResult(Err(reason))
\* changes no field of the model, leaves MAP_ENTRIES (and the map overlay and
\* centre) unchanged and schedules no command: the failed lookup is marked
\* failed, every other command keeps its state, none is added.
C11_FailedLookupChangesNothing ==
    [][ ((IsCityResult(last') \/ IsEntryResult(last')) /\ ~last'.ok) =>
            /\ model' = model
            /\ MAP_ENTRIES' = MAP_ENTRIES
            /\ overlay' = overlay /\ mapCenter' = mapCenter
            /\ timers' = timers
            /\ DOMAIN reqs' = DOMAIN reqs
            /\ reqs[last'.req].status = "pending" /\ reqs'[last'.req].status = "err"
            /\ \A r \in DOMAIN reqs : r # last'.req => reqs'[r] = reqs[r]
      ]_vars

\* C11 witness: a place search has just failed, an entries search failed
\* earlier, and the model holds cities, entries, a viewport and a selection.
C11_Witness ==
    /\ IsCityResult(last) /\ ~last.ok
    /\ \E r \in DOMAIN reqs : reqs[r].kind = "entries" /\ reqs[r].status = "err"
    /\ model.cities # None /\ model.entries # <<>>
    /\ model.bbox # None /\ model.selected # None
    /\ MAP_ENTRIES # <<>>

\* C12: every lookup command issued by update comes back as one result message
\* and, under fairness of the network task, that message is eventually
\* processed: a place search that is in flight is eventually answered.
C12_ResultEventuallyProcessed ==
    \A r \in ReqIds :
        (r \in DOMAIN reqs /\ reqs[r].status = "pending")
            ~> (r \in DOMAIN reqs /\ reqs[r].status # "pending")

C14_SearchAndCenterKeepModel ==
    [][ /\ last'.type = "CitySearch" =>
              /\ model' = model
              /\ reqs' = Append(reqs, [kind |-> "nominatim", arg |-> last'.txt,
                                       status |-> "pending"])
              /\ UNCHANGED <<MAP_ENTRIES, timers, mapCenter, overlay>>
        /\ last'.type = "SetMapCenter" =>
              /\ model' = model /\ model'.bbox = model.bbox
              /\ mapCenter' = Some(<<last'.lat, last'.lng>>)
              /\ UNCHANGED <<MAP_ENTRIES, reqs, timers, overlay>>
      ]_vars

\* C14 witness: the map has just been recentred on a city of the list while a
\* later place search is still in flight.
C14_Witness ==
    /\ last.type = "SetMapCenter"
    /\ mapCenter = Some(<<last.lat, last.lng>>)
    /\ model.cities # None
    /\ \E r \in DOMAIN reqs : reqs[r].status = "pending"
    /\ \E r \in DOMAIN reqs : reqs[r].status = "ok"

\* C15: EntryForm(Title(t)) sets new_entry_form.title = t, EntryForm(Description(d))
\* sets new_entry_form.description = d and ShowNewEntryForm sets
\* show_new_entry_form = true; each changes nothing else: every other field of
\* the model keeps its value (no validation is run) and no command is scheduled.
C15_FormEditsChangeOneField ==
    [][ /\ (last'.type = "EntryForm" /\ last'.field = "Title") =>
              model' = [model EXCEPT !.new_entry_form.title = last'.txt]
        /\ (last'.type = "EntryForm" /\ last'.field = "Description") =>
              model' = [model EXCEPT !.new_entry_form.description = last'.txt]
        /\ last'.type = "ShowNewEntryForm" =>
              model' = [model EXCEPT !.show_new_entry_form = TRUE]
        /\ last'.type \in {"EntryForm", "ShowNewEntryForm"} =>
              UNCHANGED <<MAP_ENTRIES, reqs, timers, mapCenter, overlay>>
      ]_vars

\* C15 witness: after a rejected submit of an empty title the title was set to
\* "Hey"; the violation of the empty title and the description are still there.
C15_Witness ==
    /\ last.type = "EntryForm" /\ last.field = "Title"
    /\ model.new_entry_form = [title |-> <<72, 101, 121>>, description |-> <<120>>]
    /\ model.new_entry_form_errors = <<TitleLength(MinTitle, MaxTitle, 0)>>
    /\ model.show_new_entry_form

\* C16: the validation rule bounds the title on both sides: right after a
\* CreateNewEntry processed with a title of more than 25 characters the form is
\* rejected, so new_entry_form_errors holds a violation.
C16_LongTitleRejected ==
    (last.type = "CreateNewEntry" /\ Len(model.new_entry_form.title) > MaxTitle) =>
        /\ ~validate(model.new_entry_form).ok
        /\ model.new_entry_form_errors # <<>>

\* the list get_map_entries hands to the host is the projection of the entries
Projected(markers, entries) ==
    /\ Len(markers) = Len(entries)
    /\ \A i \in DOMAIN entries :
          markers[i] = [id |-> entries[i].id, name |-> entries[i].title,
                        lat |-> entries[i].lat, lng |-> entries[i].lng]

\* C17: between two messages MAP_ENTRIES is the projection of model.entries
\* (same length and order, each element {id, name: title, lat, lng}); both are
\* empty initially, both change only in the step of an EntrySearchResult(Ok),
\* and what the host read at updateMap is that same list.
C17_MapEntriesMirrorEntries ==
    /\ (model.entries = <<>> /\ MAP_ENTRIES = <<>>)
    /\ [](Projected(MAP_ENTRIES, model.entries))
    /\ [](overlay # None => overlay[1] = MAP_ENTRIES)
    /\ [][ (MAP_ENTRIES' # MAP_ENTRIES \/ model'.entries # model.entries
                \/ overlay' # overlay) =>
              (IsEntryResult(last') /\ last'.ok) ]_vars

\* C17 witness: a second successful response has just been applied; the model
\* holds its two visible entries, MAP_ENTRIES and the host their two markers.
C17_Witness ==
    /\ IsEntryResult(last) /\ last.ok
    /\ \E r \in DOMAIN reqs : r # last.req /\ reqs[r].status = "ok"
    /\ Len(model.entries) = 2 /\ model.entries[1] # model.entries[2]
    /\ Len(MAP_ENTRIES) = 2
    /\ MAP_ENTRIES[1].name = model.entries[1].title
    /\ MAP_ENTRIES[2].name = model.entries[2].title
    /\ overlay = Some(MAP_ENTRIES)

\* C18: model.cities is None or Some of a non-empty list in every reachable
\* state; it is None initially and, once it is Some, no step returns it to None
\* or to an empty list.
C18_CitiesNoneOrNonEmpty ==
    /\ model.cities = None
    /\ [](model.cities = None \/ (Len(model.cities) = 1 /\ model.cities[1] # <<>>))
    /\ [][ model.cities # None =>
              (model'.cities # None /\ model'.cities[1] # <<>>) ]_vars

\* C18 witness: with a list of cities in place, a place search has just come
\* back with an empty response.
C18_Witness ==
    /\ IsCityResult(last) /\ last.ok /\ last.res = <<>>
    /\ model.cities # None /\ model.cities[1] # <<>>

\* C19: an entries search is issued by UpdateBBox alone, in the step that sets
\* the viewport, and its result is processed only after that; so whenever
\* model.entries is non-empty, or an entries search is in flight or has been
\* answered, model.bbox is Some.
C19_EntriesImplyBBox ==
    /\ []((model.entries # <<>> \/ Issued("entries") # {}) => model.bbox # None)
    /\ [][ /\ (Issued("entries"))' # Issued("entries") =>
                 (last'.type = "UpdateBBox" /\ model'.bbox = Some(last'.bbox))
           /\ IsEntryResult(last') =>
                 /\ last'.req \in Issued("entries")
                 /\ reqs[last'.req].status = "pending"
                 /\ model.bbox # None /\ model'.bbox # None
         ]_vars

\* C19 witness: the first entries search has just been answered with visible
\* entries; the viewport is the box UpdateBBox issued that search for.
C19_Witness ==
    /\ IsEntryResult(last) /\ last.ok /\ last.req = 1
    /\ model.entries # <<>>
    /\ model.bbox # None /\ reqs[1].arg = to_vec(model.bbox[1])
    /\ Len(reqs) = 1

\* C20: model.selected is changed by EntrySelected alone; an
\* EntrySearchResult(Ok) that replaces model.entries leaves it as it was, also
\* when no entry with the selected id is in the new list.
C20_SelectionChangedBySelectOnly ==
    [][ /\ model'.selected # model.selected => last'.type = "EntrySelected"
        /\ (IsEntryResult(last') /\ last'.ok) =>
              /\ model'.entries = last'.res.visible
              /\ model'.selected = model.selected
      ]_vars

\* C20 witness: an entry is selected and the response just applied holds
\* entries, none of them with the selected id.
C20_Witness ==
    /\ IsEntryResult(last) /\ last.ok
    /\ model.selected # None
    /\ model.entries # <<>>
    /\ \A i \in DOMAIN model.entries : model.entries[i].id # model.selected[1].id
====
